---- MODULE Spec2Model ----
(***************************************************************************)
(* The asyncio event bus of lib/event_sys/async_bus.py: EventSubscription, *)
(* SessionEventSubscription and EventBus.                                  *)
(*                                                                         *)
(* asyncio is single-threaded and cooperative: code between two awaits     *)
(* that suspend runs atomically.  One action of this module is one such    *)
(* atomic block of one coroutine or task.                                  *)
(***************************************************************************)
EXTENDS Integers, Sequences, FiniteSets, TLC

\* ---------------------------------------------------------------- bounds
MaxSubs == 2
MaxEvents == 3
MaxQueue == 2
MaxBusEvents == 2
MaxSessionEvents == 2
MaxCancelEvents == 2
MaxStrategyEvents == 2
MaxSweepEvents == 1
MaxScopeEvents == 2
MaxOldestEvents == 4
MaxEvictEvents == 2
MaxFailEvents == 2
MaxInputs == 3
MaxStreamEvents == 2
MaxRestartEvents == 2

\* queue_size default of EventSubscription.__init__, the capacity every
\* SessionEventSubscription gets
DEFAULT_QUEUE_SIZE == 1000

EventTypes == {"part_start | text", "input | text"}
Sessions == {"A", "B"}

DROP_OLDEST == "drop_oldest"
DROP_NEWEST == "drop_newest"
BLOCK == "block"
BackpressureStrategy == {DROP_OLDEST, DROP_NEWEST, BLOCK}

VARIABLES
    subscription,                  \* the EventSubscription objects, by identity 1..n
    subscriptions,                 \* EventBus._subscriptions (insertion-ordered dict)
    session_subscriptions,         \* EventBus._session_subscriptions
    default_queue_size,            \* EventBus.default_queue_size
    default_backpressure_strategy, \* EventBus.default_backpressure_strategy
    call,                          \* the emit / enqueue_event calls, by event 1..n
    clear,                         \* the clear_all coroutine and EventBus._lock
    app                            \* the Application: its input queue and its run loop

vars == <<subscription, subscriptions, session_subscriptions, default_queue_size,
          default_backpressure_strategy, call, clear, app>>

\* ------------------------------------------------------- dict (ordered)
\* A dict is a sequence of [key, val] entries in insertion order.
Keys(d) == {d[i].key : i \in DOMAIN d}

Lookup_Any(d, k) == IF d = <<>> THEN <<>> ELSE d[1].val
Lookup(d, k) == IF k \in Keys(d) THEN (d[CHOOSE i \in DOMAIN d : d[i].key = k]).val ELSE <<>>

SetItem(d, k, v) ==
    IF k \in Keys(d)
    THEN [i \in DOMAIN d |-> IF d[i].key = k THEN [key |-> k, val |-> v] ELSE d[i]]
    ELSE Append(d, [key |-> k, val |-> v])

\* del d[k]
DelItem_Keep(d, k) == d
DelItem(d, k) ==
    LET RECURSIVE Without(_)
        Without(i) == IF i > Len(d) THEN <<>>
                      ELSE (IF d[i].key = k THEN <<>> ELSE <<d[i]>>) \o Without(i + 1)
    IN  Without(1)

\* defaultdict(list).__getitem__: a missing key is inserted with []
Touch(d, k) == IF k \in Keys(d) THEN d ELSE Append(d, [key |-> k, val |-> <<>>])

\* ------------------------------------------------------- EventSubscription
\* self._processing_task = None: no consumption task exists until
\* start_processing creates it
InitialTask_Running == "get"
InitialTask == "none"

NewSubscription(knd, et, sid, size, strategy) ==
    [ kind |-> knd,                  \* "plain" | "once" | "session": which handler wrapper
      event_type |-> et,
      session_id |-> sid,
      queue_size |-> size,
      backpressure_strategy |-> strategy,
      cancelled |-> FALSE,
      event_queue |-> <<>>,
      dropped_events |-> 0,
      processed_events |-> 0,
      processing_task |-> FALSE,     \* _processing_task is not None
      starting |-> TRUE,             \* the start_processing background task has not run yet
      task |-> InitialTask,         \* the _process_events task: none | created | get | handler | done
      must_cancel |-> FALSE,         \* Task.cancel() was requested and not yet delivered
      current |-> 0,                 \* the event the handler is running on
      cleanup |-> "none",            \* cancel()'s stop_processing task: none | pending | awaiting | done
      threads |-> 0,                 \* executor threads still running a handler whose task was cancelled
      \* history, for stating the properties
      admitted |-> <<>>,             \* events put into the queue, in order
      rejected |-> 0,                \* enqueue_event calls that ended in QueueFull
      delivered |-> <<>>,            \* events passed to self.handler, in order
      unprocessed |-> 0 ]            \* handler runs that raised or were cancelled

\* asyncio.Queue(maxsize=queue_size).full()
Full_OffByOne(rec) == rec.queue_size > 0 /\ Len(rec.event_queue) > rec.queue_size
Full(rec) == rec.queue_size > 0 /\ Len(rec.event_queue) >= rec.queue_size

PutNowait_Inline(rec, e) ==
    [rec EXCEPT !.admitted = Append(@, e), !.delivered = Append(@, e),
                !.processed_events = @ + 1]
PutNowait(rec, e) ==
    [rec EXCEPT !.event_queue = Append(@, e), !.admitted = Append(@, e)]

QueueFullRaised(rec) ==
    [sub |-> [rec EXCEPT !.dropped_events = @ + 1, !.rejected = @ + 1], result |-> "false"]

\* lines 65-68: BLOCK
Block_Drops(rec, e) ==
    IF Full(rec) THEN QueueFullRaised(rec)
    ELSE [sub |-> PutNowait(rec, e), result |-> "true"]
Block(rec, e) ==
    IF Full(rec) THEN [sub |-> rec, result |-> "suspend"]
    ELSE [sub |-> PutNowait(rec, e), result |-> "true"]

\* lines 70-73, 85-87: DROP_NEWEST
DropNewest_Silent(rec, e) ==
    IF Full(rec) THEN [sub |-> [rec EXCEPT !.rejected = @ + 1], result |-> "false"]
    ELSE [sub |-> PutNowait(rec, e), result |-> "true"]
DropNewest(rec, e) ==
    IF Full(rec) THEN QueueFullRaised(rec)
    ELSE [sub |-> PutNowait(rec, e), result |-> "true"]

\* lines 75-84, 85-87: DROP_OLDEST
DropOldest_Newest(rec, e) ==
    IF Full(rec) /\ rec.event_queue # <<>>
    THEN [sub |-> [rec EXCEPT !.event_queue = Append(SubSeq(@, 1, Len(@) - 1), e),
                              !.dropped_events = @ + 1,
                              !.admitted = Append(@, e)],
          result |-> "true"]
    ELSE [sub |-> PutNowait(rec, e), result |-> "true"]
DropOldest_Uncounted(rec, e) ==
    LET r1 == IF Full(rec) /\ rec.event_queue # <<>>
              THEN [rec EXCEPT !.event_queue = Tail(@)]
              ELSE rec
    IN  IF Full(r1) THEN QueueFullRaised(r1)
        ELSE [sub |-> PutNowait(r1, e), result |-> "true"]
DropOldest(rec, e) ==
    LET r1 == IF Full(rec) /\ rec.event_queue # <<>>
              THEN [rec EXCEPT !.event_queue = Tail(@),
                               !.dropped_events = @ + 1]
              ELSE rec
    IN  IF Full(r1) THEN QueueFullRaised(r1)
        ELSE [sub |-> PutNowait(r1, e), result |-> "true"]

ByStrategy(rec, e) ==
    CASE rec.backpressure_strategy = BLOCK -> Block(rec, e)
      [] rec.backpressure_strategy = DROP_NEWEST -> DropNewest(rec, e)
      [] rec.backpressure_strategy = DROP_OLDEST -> DropOldest(rec, e)

\* enqueue_event up to its first suspension: lines 56-89
EnqueueEvent_NoCancelCheck(rec, e) == ByStrategy(rec, e)
EnqueueEvent(rec, e) ==
    IF rec.cancelled THEN [sub |-> rec, result |-> "false"]
    ELSE ByStrategy(rec, e)

\* cancel(): lines 145-153
Cancel_NoCleanup(rec) == [rec EXCEPT !.cancelled = TRUE]
Cancel(rec) ==
    IF rec.cancelled THEN rec
    ELSE [rec EXCEPT !.cancelled = TRUE,
                     !.cleanup = IF rec.processing_task THEN "pending" ELSE @]

\* ------------------------------------------------------- EventBus.emit
\* The for loop of emit from position i of the list, up to the first
\* enqueue_event that suspends (BLOCK on a full queue) or to the end.
RECURSIVE FanOut(_, _, _, _, _)
FanOut(subs, log, lst, i, e) ==
    IF i > Len(lst) THEN [subs |-> subs, log |-> log, idx |-> i, pc |-> "done"]
    ELSE LET s == lst[i] IN
         IF subs[s].cancelled THEN FanOut(subs, log, lst, i + 1, e)
         ELSE LET r == EnqueueEvent(subs[s], e) IN
              IF r.result = "suspend"
              THEN [subs |-> subs, log |-> log, idx |-> i, pc |-> "put"]
              ELSE FanOut([subs EXCEPT ![s] = r.sub],
                          Append(log, [sub |-> s, ok |-> r.result = "true"]),
                          lst, i + 1, e)

\* ------------------------------------------------------- EventBus.clear_all
\* The first loop of clear_all (lines 399-401) from entry li of the list of
\* key ki, up to the first stop_processing that suspends, to the end, or to
\* the dict iterator finding the dict resized.
RECURSIVE ClearWalk(_, _, _, _)
ClearWalk(subs, ki, li, size) ==
    IF ki > Len(subscriptions)
    THEN [subs |-> subs, ki |-> ki, li |-> li,
          pc |-> IF Len(subscriptions) # size THEN "raise" ELSE "finish"]
    ELSE IF li > Len(subscriptions[ki].val)
    THEN IF Len(subscriptions) # size
         THEN [subs |-> subs, ki |-> ki, li |-> li, pc |-> "raise"]
         ELSE ClearWalk(subs, ki + 1, 1, size)
    ELSE LET s == subscriptions[ki].val[li] IN
         IF ~subs[s].processing_task THEN ClearWalk(subs, ki, li + 1, size)
         ELSE IF subs[s].task = "done"
         THEN ClearWalk([subs EXCEPT ![s].processing_task = FALSE], ki, li + 1, size)
         ELSE [subs |-> [subs EXCEPT ![s].must_cancel = TRUE],
               ki |-> ki, li |-> li, pc |-> "awaiting"]

\* the members of every list of a dict
Members(d) == UNION {{d[i].val[j] : j \in DOMAIN d[i].val} : i \in DOMAIN d}

\* The coroutine that holds EventBus._lock: clear_all (pc "awaiting") or
\* cleanup_cancelled_subscriptions (pc "sweeping"), with its position in the
\* dict, the sweep's active_subscriptions and removed_count, and, for stating
\* the properties, what the last sweep found when it took the lock and how it
\* ended.
LockIdle(lst, n, o, w) ==
    [pc |-> "idle", ki |-> 0, li |-> 0, size |-> 0, active |-> <<>>,
     removed |-> n, last |-> lst, out |-> o, was |-> w]

ClearIdle == LockIdle("none", 0, {}, {})

\* removed_count += 1: line 373
Removed_Same(n) == n
Removed(n) == n + 1

\* The loops of cleanup_cancelled_subscriptions (lines 367-378) over the dict
\* d from entry li of the list of key ki, up to the first stop_processing that
\* suspends, to the end, or to the dict iterator finding the dict resized.
RECURSIVE SweepWalk(_, _, _, _, _, _, _, _)
SweepWalk(subs, d, ki, li, active, removed, size, assigned) ==
    IF ki > Len(d)
    THEN [subs |-> subs, d |-> d, ki |-> ki, li |-> li, active |-> active,
          removed |-> removed, assigned |-> assigned,
          pc |-> IF Len(d) # size THEN "raise" ELSE "finish"]
    ELSE IF li > Len(d[ki].val)
    THEN LET d1 == [d EXCEPT ![ki].val = active]
             done == assigned \cup {d[ki].key}
         IN  IF Len(d) # size
             THEN [subs |-> subs, d |-> d1, ki |-> ki, li |-> li, active |-> active,
                   removed |-> removed, assigned |-> done, pc |-> "raise"]
             ELSE IF ki = Len(d)
             THEN [subs |-> subs, d |-> d1, ki |-> ki, li |-> li, active |-> active,
                   removed |-> removed, assigned |-> done, pc |-> "finish"]
             ELSE SweepWalk(subs, d1, ki + 1, 1, <<>>, removed, size, done)
    ELSE LET s == d[ki].val[li] IN
         IF ~subs[s].cancelled
         THEN SweepWalk(subs, d, ki, li + 1, Append(active, s), removed, size, assigned)
         ELSE IF ~subs[s].processing_task
         THEN SweepWalk(subs, d, ki, li + 1, active, Removed(removed), size, assigned)
         ELSE IF subs[s].task = "done"
         THEN SweepWalk([subs EXCEPT ![s].processing_task = FALSE], d, ki, li + 1,
                        active, Removed(removed), size, assigned)
         ELSE [subs |-> [subs EXCEPT ![s].must_cancel = TRUE], d |-> d, ki |-> ki,
               li |-> li, active |-> active, removed |-> removed,
               assigned |-> assigned, pc |-> "awaiting"]

\* ------------------------------------------------------- Application
\* Application.__init__: src/cli/app.py lines 18-29
NewApplication ==
    [ initialized |-> FALSE,       \* _initialized
      terminate_app |-> FALSE,     \* _terminate_app
      input_events |-> <<>>,       \* _input_events
      pc |-> "run",                \* run: in its loop | exiting (awaits clear_all) | raised
      handled |-> <<>> ]           \* events passed to handle_command / handle_text_input

\* the texts a user types, as sequences of characters
Texts ==
    { <<>>,
      <<"/", "q", "u", "i", "t">>,
      <<"e", "x", "i", "t">>,
      <<"a", "/">> }

\* the inputs that end the program: "/quit" (src/cli/console.py line 529)
\* and "exit" (src/main.py line 28)
ExitTokens == { <<"/", "q", "u", "i", "t">>, <<"e", "x", "i", "t">> }

\* str.startswith, for a prefix of one character
StartsWith(data, prefix) == data # <<>> /\ Head(data) = prefix

\* UserInputEvent.event_type: src/lib/event_sys/types.py lines 94-98
UserInputEventType_Contains(data) ==
    IF \E i \in DOMAIN data : data[i] = "/" THEN "input | command" ELSE "input | text"
UserInputEventType(data) ==
    IF StartsWith(data, "/") THEN "input | command" ELSE "input | text"

\* ------------------------------------------------------- StreamOutEvent
\* The payloads of a StreamOutEvent: the class of data, its event_kind and
\* the kind of its nested part, delta or result.  "Other" is a payload of
\* none of the classes event_type tests for.
Payloads ==
    { [class |-> "PartStartEvent", event_kind |-> "part_start", nested_kind |-> "text"],
      [class |-> "PartDeltaEvent", event_kind |-> "part_delta", nested_kind |-> "text"],
      [class |-> "FinalResultEvent", event_kind |-> "final_result", nested_kind |-> "none"],
      [class |-> "FunctionToolResultEvent", event_kind |-> "function_tool_result",
       nested_kind |-> "tool-return"],
      [class |-> "Other", event_kind |-> "other", nested_kind |-> "none"] }

\* the classifications the subscribers of the stream scenario register for;
\* f"{event_kind} | {type2_}" is the pair of its two parts
StreamKeys == { <<"part_start", "text">>, <<"final_result", "">>, <<"Unknown">> }

\* StreamOutEvent.event_type: src/lib/event_sys/types.py lines 57-72
StreamOutEventType_NoSentinel(data) ==
    <<data.event_kind,
      IF data.class = "FinalResultEvent" THEN "" ELSE data.nested_kind>>
StreamOutEventType(data) ==
    LET type2_ ==
            IF data.class \in {"PartStartEvent", "FunctionToolCallEvent",
                               "BuiltinToolCallEvent"}
            THEN data.nested_kind
            ELSE IF data.class = "PartDeltaEvent" THEN data.nested_kind
            ELSE IF data.class = "FinalResultEvent" THEN ""
            ELSE IF data.class \in {"FunctionToolResultEvent", "BuiltinToolResultEvent"}
            THEN data.nested_kind
            ELSE "Unknown"
    IN  IF type2_ = "Unknown" THEN <<"Unknown">> ELSE <<data.event_kind, type2_>>

\* ------------------------------------------------------- initial state
\* EventBus.__init__: lines 190-206
Init ==
    /\ subscription = <<>>
    /\ subscriptions = <<>>
    /\ session_subscriptions = <<>>
    /\ default_queue_size \in 1..MaxQueue
    /\ default_backpressure_strategy \in BackpressureStrategy
    /\ call = <<>>
    /\ clear = ClearIdle
    /\ app = NewApplication

\* EventBus(): the constructor's default arguments, lines 192-193
InitDefault ==
    /\ subscription = <<>>
    /\ subscriptions = <<>>
    /\ session_subscriptions = <<>>
    /\ default_queue_size = DEFAULT_QUEUE_SIZE
    /\ default_backpressure_strategy = DROP_OLDEST
    /\ call = <<>>
    /\ clear = ClearIdle
    /\ app = NewApplication

Subs == DOMAIN subscription
Calls == DOMAIN call

\* ------------------------------------------------------- subscribe*
\* A list that an emit in progress is iterating is the list object of the
\* dict until the dict drops it: an append is seen by that emit.
Register(rec) ==
    LET n == Len(subscription) + 1
        et == rec.event_type
    IN  /\ subscription' = Append(subscription, rec)
        /\ subscriptions' = SetItem(subscriptions, et, Append(Lookup(subscriptions, et), n))
        /\ call' = [c \in Calls |->
                      IF call[c].pc = "put" /\ call[c].live /\ call[c].event_type = et
                      THEN [call[c] EXCEPT !.list = Append(@, n)]
                      ELSE call[c]]

\* subscribe: lines 220-242
Subscribe(et) ==
    /\ Register(NewSubscription("plain", et, "", default_queue_size,
                                default_backpressure_strategy))
    /\ UNCHANGED <<session_subscriptions, default_queue_size,
                   default_backpressure_strategy, clear, app>>

\* subscribe_once: lines 244-273
SubscribeOnce(et) ==
    /\ Register(NewSubscription("once", et, "", default_queue_size,
                                default_backpressure_strategy))
    /\ UNCHANGED <<session_subscriptions, default_queue_size,
                   default_backpressure_strategy, clear, app>>

\* subscribe_session: lines 275-291, with SessionEventSubscription.__init__
SubscribeSession(sid, et) ==
    /\ Register(NewSubscription("session", et, sid, DEFAULT_QUEUE_SIZE, DROP_OLDEST))
    /\ session_subscriptions' =
           SetItem(session_subscriptions, sid,
                   Append(Lookup(session_subscriptions, sid), Len(subscription) + 1))
    /\ UNCHANGED <<default_queue_size, default_backpressure_strategy, clear, app>>

\* ------------------------------------------------------- the tasks of one subscription
\* start_processing, run by the background task subscribe created: lines 91-94
StartProcessing(s) ==
    /\ subscription[s].starting
    /\ subscription' = [subscription EXCEPT
           ![s].starting = FALSE,
           ![s].processing_task = TRUE,
           ![s].task = IF subscription[s].processing_task THEN @ ELSE "created"]
    /\ UNCHANGED <<subscriptions, session_subscriptions, default_queue_size,
                   default_backpressure_strategy, call, clear, app>>

\* where the loop of _process_events goes after one pass: line 107
LoopTop(rec) == IF rec.cancelled THEN "done" ELSE "get"

\* the first step of the _process_events task
ConsumerStart(s) ==
    /\ subscription[s].task = "created"
    /\ ~subscription[s].must_cancel
    /\ subscription' = [subscription EXCEPT ![s].task = LoopTop(subscription[s])]
    /\ UNCHANGED <<subscriptions, session_subscriptions, default_queue_size,
                   default_backpressure_strategy, call, clear, app>>

\* wait_for(get) times out and the loop tests _cancelled again: lines 107-110, 127-128
ConsumerTimeout(s) ==
    /\ subscription[s].task = "get"
    /\ ~subscription[s].must_cancel
    /\ subscription[s].cancelled
    /\ subscription' = [subscription EXCEPT ![s].task = "done"]
    /\ UNCHANGED <<subscriptions, session_subscriptions, default_queue_size,
                   default_backpressure_strategy, call, clear, app>>

\* which end of the queue get() takes
Dequeued_Last(q) == q[Len(q)]
Dequeued(q) == Head(q)
Remaining(q, e) ==
    LET i == CHOOSE j \in DOMAIN q : q[j] = e
    IN  SubSeq(q, 1, i - 1) \o SubSeq(q, i + 1, Len(q))

\* session_handler's filter: line 174
Matches_Any(rec, e) == TRUE
Matches(rec, e) == rec.kind # "session" \/ call[e].session_id = rec.session_id

\* wait_for(get) returns an event and the handler is entered: lines 110-118.
\* A session handler that filters the event out returns at once: the pass
\* ends in the same step (lines 120-121).
ConsumerGet(s) ==
    LET rec == subscription[s]
        e == Dequeued(rec.event_queue)
        got == [rec EXCEPT !.event_queue = Remaining(@, e),
                           !.delivered = Append(@, e)]
    IN  /\ rec.task = "get"
        /\ ~rec.must_cancel
        /\ rec.event_queue # <<>>
        /\ subscription' = [subscription EXCEPT ![s] =
               IF Matches(rec, e)
               THEN [got EXCEPT !.task = "handler", !.current = e]
               ELSE [got EXCEPT !.processed_events = @ + 1, !.task = LoopTop(rec)]]
        /\ UNCHANGED <<subscriptions, session_subscriptions, default_queue_size,
                       default_backpressure_strategy, call, clear, app>>

\* once_wrapper's finally: line 256
OnceFinally_OnlyOnReturn(rec, raised) ==
    IF rec.kind = "once" /\ ~raised THEN Cancel(rec) ELSE rec
OnceFinally_Always(rec, raised) == Cancel(rec)
OnceFinally(rec, raised) ==
    IF rec.kind = "once" THEN Cancel(rec) ELSE rec

\* Application._handel_input_events, the handler of the subscriptions of
\* kind "app": src/cli/app.py lines 60-63
HandelInputEvents(rec) ==
    IF rec.kind = "app" /\ call[rec.current].user_input
    THEN [app EXCEPT !.input_events = Append(@, rec.current)]
    ELSE app

\* the user's handler returns: lines 120-121
HandlerReturn(s) ==
    LET rec == OnceFinally(subscription[s], FALSE)
    IN  /\ subscription[s].task = "handler"
        /\ ~subscription[s].must_cancel
        /\ subscription' = [subscription EXCEPT ![s] =
               [rec EXCEPT !.processed_events = @ + 1, !.current = 0,
                           !.task = LoopTop(rec)]]
        /\ app' = HandelInputEvents(subscription[s])
        /\ UNCHANGED <<subscriptions, session_subscriptions, default_queue_size,
                       default_backpressure_strategy, call, clear>>

\* the user's handler raises: session_handler swallows it (lines 180-181) and
\* the pass counts; otherwise lines 123-125
HandlerRaise(s) ==
    LET rec == OnceFinally(subscription[s], TRUE)
    IN  /\ subscription[s].task = "handler"
        /\ ~subscription[s].must_cancel
        /\ subscription' = [subscription EXCEPT ![s] =
               IF rec.kind = "session"
               THEN [rec EXCEPT !.processed_events = @ + 1, !.current = 0,
                                !.task = LoopTop(rec)]
               ELSE [rec EXCEPT !.unprocessed = @ + 1, !.current = 0,
                                !.task = LoopTop(rec)]]
        /\ UNCHANGED <<subscriptions, session_subscriptions, default_queue_size,
                       default_backpressure_strategy, call, clear, app>>

\* Task.cancel() is delivered as CancelledError at the task's await and
\* ends the task: lines 130-131 (through once_wrapper's finally when the
\* handler is running)
ConsumerCancelled(s) ==
    LET rec == subscription[s]
        inHandler == rec.task = "handler"
        fin == IF inHandler THEN OnceFinally(rec, TRUE) ELSE rec
    IN  /\ rec.task \in {"created", "get", "handler"}
        /\ rec.must_cancel
        /\ subscription' = [subscription EXCEPT ![s] =
               [fin EXCEPT !.task = "done", !.must_cancel = FALSE, !.current = 0,
                           !.unprocessed = IF inHandler THEN @ + 1 ELSE @]]
        /\ UNCHANGED <<subscriptions, session_subscriptions, default_queue_size,
                       default_backpressure_strategy, call, clear, app>>

\* subscription.cancel() called by its holder: lines 145-153
CancelSub(s) ==
    /\ subscription' = [subscription EXCEPT ![s] = Cancel(subscription[s])]
    /\ UNCHANGED <<subscriptions, session_subscriptions, default_queue_size,
                   default_backpressure_strategy, call, clear, app>>

\* The finally clause of temporary_subscription (lines 420-421) and __exit__
\* (lines 162-163): the scope has ended, by returning or by raising.
ScopeFinally_OnlyOnReturn(rec, raised) ==
    IF raised THEN [rec EXCEPT !.kind = "raised"]
    ELSE [Cancel(rec) EXCEPT !.kind = "exited"]
ScopeFinally(rec, raised) ==
    [Cancel(rec) EXCEPT !.kind = IF raised THEN "raised" ELSE "exited"]

\* async with bus.temporary_subscription(et, handler): the scope is entered
\* with a subscription made by subscribe (line 417)
TemporarySubscription(et) ==
    /\ Register(NewSubscription("scope", et, "", default_queue_size,
                                default_backpressure_strategy))
    /\ UNCHANGED <<session_subscriptions, default_queue_size,
                   default_backpressure_strategy, clear, app>>

\* with EventSubscription(bus, et, handler): the scope is entered with a
\* subscription constructed directly, which no registry holds (lines 33-54,
\* 159-160)
WithSubscription(et) ==
    /\ subscription' = Append(subscription,
           NewSubscription("scope", et, "", DEFAULT_QUEUE_SIZE, DROP_OLDEST))
    /\ UNCHANGED <<subscriptions, session_subscriptions, default_queue_size,
                   default_backpressure_strategy, call, clear, app>>

\* the scope returns
ScopeExit(s) ==
    /\ subscription[s].kind = "scope"
    /\ subscription' = [subscription EXCEPT ![s] = ScopeFinally(subscription[s], FALSE)]
    /\ UNCHANGED <<subscriptions, session_subscriptions, default_queue_size,
                   default_backpressure_strategy, call, clear, app>>

\* an exception leaves the scope
ScopeRaise(s) ==
    /\ subscription[s].kind = "scope"
    /\ subscription' = [subscription EXCEPT ![s] = ScopeFinally(subscription[s], TRUE)]
    /\ UNCHANGED <<subscriptions, session_subscriptions, default_queue_size,
                   default_backpressure_strategy, call, clear, app>>

\* await self._processing_task (line 101) is over when the task has ended
Awaited_NoWait(rec) == TRUE
Awaited(rec) == rec.task = "done"

\* stop_processing, run by the task cancel() created: lines 96-101
CleanupRun(s) ==
    LET rec == subscription[s]
    IN  /\ rec.cleanup = "pending"
        /\ subscription' = [subscription EXCEPT ![s] =
               IF ~rec.processing_task THEN [rec EXCEPT !.cleanup = "done"]
               ELSE IF rec.task = "done"
               THEN [rec EXCEPT !.cleanup = "done", !.processing_task = FALSE]
               ELSE [rec EXCEPT !.cleanup = "awaiting", !.must_cancel = TRUE]]
        /\ UNCHANGED <<subscriptions, session_subscriptions, default_queue_size,
                       default_backpressure_strategy, call, clear, app>>

\* the awaited task has ended: line 102
CleanupResume(s) ==
    /\ subscription[s].cleanup = "awaiting"
    /\ Awaited(subscription[s])
    /\ subscription' = [subscription EXCEPT ![s].cleanup = "done",
                                            ![s].processing_task = FALSE]
    /\ UNCHANGED <<subscriptions, session_subscriptions, default_queue_size,
                   default_backpressure_strategy, call, clear, app>>

\* await subscription.start_processing() called again by the holder of the
\* subscription: lines 91-94
RestartProcessing(s) ==
    /\ ~subscription[s].starting
    /\ subscription' = [subscription EXCEPT
           ![s].processing_task = TRUE,
           ![s].task = IF subscription[s].processing_task THEN @ ELSE "created"]
    /\ UNCHANGED <<subscriptions, session_subscriptions, default_queue_size,
                   default_backpressure_strategy, call, clear, app>>

\* await subscription.stop_processing() called by the holder of the
\* subscription, up to its suspension: lines 96-101
StopProcessing(s) ==
    LET rec == subscription[s]
    IN  /\ rec.cleanup \in {"none", "done"}
        /\ subscription' = [subscription EXCEPT ![s] =
               IF ~rec.processing_task THEN [rec EXCEPT !.cleanup = "done"]
               ELSE IF rec.task = "done"
               THEN [rec EXCEPT !.cleanup = "done", !.processing_task = FALSE]
               ELSE [rec EXCEPT !.cleanup = "awaiting", !.must_cancel = TRUE]]
        /\ UNCHANGED <<subscriptions, session_subscriptions, default_queue_size,
                       default_backpressure_strategy, call, clear, app>>

\* A handler that is not a coroutine function runs in a thread of the
\* default executor (lines 116-118).  CancelledError at the await of
\* run_in_executor ends the task (lines 130-131); the thread cannot be
\* interrupted and goes on running the handler.
ExecutorCancelled(s) ==
    LET rec == subscription[s]
    IN  /\ rec.task = "handler"
        /\ rec.must_cancel
        /\ subscription' = [subscription EXCEPT ![s] =
               [rec EXCEPT !.task = "done", !.must_cancel = FALSE, !.current = 0,
                           !.unprocessed = @ + 1, !.threads = @ + 1]]
        /\ UNCHANGED <<subscriptions, session_subscriptions, default_queue_size,
                       default_backpressure_strategy, call, clear, app>>

\* the handler returns in a thread nobody waits for any more
ThreadReturn(s) ==
    /\ subscription[s].threads > 0
    /\ subscription' = [subscription EXCEPT ![s].threads = @ - 1]
    /\ UNCHANGED <<subscriptions, session_subscriptions, default_queue_size,
                   default_backpressure_strategy, call, clear, app>>

\* ------------------------------------------------------- producers
NewCall(md, et, sid, lst, r) ==
    [mode |-> md, event_type |-> et, session_id |-> sid, pc |-> r.pc,
     list |-> lst, live |-> md = "emit", idx |-> r.idx, log |-> r.log,
     user_input |-> FALSE, data |-> <<>>]

\* emit(event) up to its first suspension: lines 293-307
Emit(et, sid) ==
    LET e == Len(call) + 1
        lst == Lookup(subscriptions, et)
        r == FanOut(subscription, <<>>, lst, 1, e)
    IN  /\ subscriptions' = Touch(subscriptions, et)
        /\ subscription' = r.subs
        /\ call' = Append(call, NewCall("emit", et, sid, lst, r))
        /\ UNCHANGED <<session_subscriptions, default_queue_size,
                       default_backpressure_strategy, clear, app>>

\* emit(event) in which the enqueue_event of the subscription at position i
\* of the list raises an exception that enqueue_event does not catch (it
\* catches QueueFull only, line 85; Queue.put of line 67 raises RuntimeError
\* on a queue bound to another event loop).  The try of emit encloses the for
\* loop (lines 300-307): its except clause logs the exception, the loop is
\* over and emit returns.
EmitFailing(et, sid, i) ==
    LET e == Len(call) + 1
        lst == Lookup(subscriptions, et)
        r == FanOut(subscription, <<>>, SubSeq(lst, 1, i - 1), 1, e)
    IN  /\ i \in 1..Len(lst)
        /\ ~subscription[lst[i]].cancelled
        /\ r.pc = "done"
        /\ subscriptions' = Touch(subscriptions, et)
        /\ subscription' = r.subs
        /\ call' = Append(call, NewCall("emit", et, sid, lst,
                                        [pc |-> "caught", idx |-> i, log |-> r.log]))
        /\ UNCHANGED <<session_subscriptions, default_queue_size,
                       default_backpressure_strategy, clear, app>>

\* bus.emit(UserInputEvent(session_id, data, timestamp)), as in
\* TerminalUI._handle_user_input (src/cli/console.py lines 532-538)
EmitInput(data) ==
    LET e == Len(call) + 1
        et == UserInputEventType(data)
        lst == Lookup(subscriptions, et)
        r == FanOut(subscription, <<>>, lst, 1, e)
    IN  /\ subscriptions' = Touch(subscriptions, et)
        /\ subscription' = r.subs
        /\ call' = Append(call, [NewCall("emit", et, "A", lst, r)
                                    EXCEPT !.user_input = TRUE, !.data = data])
        /\ UNCHANGED <<session_subscriptions, default_queue_size,
                       default_backpressure_strategy, clear, app>>

\* bus.emit(StreamOutEvent(session_id, data)) up to its first suspension
EmitStream(data) ==
    LET e == Len(call) + 1
        et == StreamOutEventType(data)
        lst == Lookup(subscriptions, et)
        r == FanOut(subscription, <<>>, lst, 1, e)
    IN  /\ subscriptions' = Touch(subscriptions, et)
        /\ subscription' = r.subs
        /\ call' = Append(call, [NewCall("emit", et, "A", lst, r) EXCEPT !.data = data])
        /\ UNCHANGED <<session_subscriptions, default_queue_size,
                       default_backpressure_strategy, clear, app>>

\* subscription.enqueue_event(event) called directly, up to its first suspension
EnqueueDirect(s, sid) ==
    LET e == Len(call) + 1
        r == EnqueueEvent(subscription[s], e)
        out == IF r.result = "suspend"
               THEN [pc |-> "put", idx |-> 1, log |-> <<>>]
               ELSE [pc |-> "done", idx |-> 2,
                     log |-> <<[sub |-> s, ok |-> r.result = "true"]>>]
    IN  /\ subscription' = [subscription EXCEPT ![s] = r.sub]
        /\ call' = Append(call, NewCall("direct", subscription[s].event_type, sid, <<s>>, out))
        /\ UNCHANGED <<subscriptions, session_subscriptions, default_queue_size,
                       default_backpressure_strategy, clear, app>>

\* Queue.put wakes with room in the queue: the event is put, enqueue_event
\* returns True (line 68) and an emit goes on with its loop
ResumePut(c) ==
    LET s == call[c].list[call[c].idx]
        log1 == Append(call[c].log, [sub |-> s, ok |-> TRUE])
        subs1 == [subscription EXCEPT ![s] = PutNowait(subscription[s], c)]
        r == IF call[c].mode = "emit"
             THEN FanOut(subs1, log1, call[c].list, call[c].idx + 1, c)
             ELSE [subs |-> subs1, log |-> log1, idx |-> call[c].idx + 1, pc |-> "done"]
    IN  /\ call[c].pc = "put"
        /\ ~Full(subscription[s])
        /\ subscription' = r.subs
        /\ call' = [call EXCEPT ![c].pc = r.pc, ![c].idx = r.idx, ![c].log = r.log]
        /\ UNCHANGED <<subscriptions, session_subscriptions, default_queue_size,
                       default_backpressure_strategy, clear, app>>

\* ------------------------------------------------------- bus-wide operations
\* set_global_backpressure_strategy: lines 383-393 (it needs the lock)
SetStrategy_All(rec, strategy) == [rec EXCEPT !.backpressure_strategy = strategy]
SetStrategy(rec, strategy) ==
    IF rec.cancelled THEN rec ELSE [rec EXCEPT !.backpressure_strategy = strategy]

SetGlobalBackpressureStrategy(strategy) ==
    /\ clear.pc = "idle"
    /\ default_backpressure_strategy' = strategy
    /\ subscription' = [s \in Subs |->
           IF s \in Members(subscriptions)
           THEN SetStrategy(subscription[s], strategy)
           ELSE subscription[s]]
    /\ UNCHANGED <<subscriptions, session_subscriptions, default_queue_size, call, clear, app>>

\* cleanup_session: lines 309-321 (it needs the lock)
CleanupSession(sid) ==
    LET lst == Lookup(session_subscriptions, sid)
        mine == {lst[i] : i \in DOMAIN lst}
    IN  /\ clear.pc = "idle"
        /\ IF sid \notin Keys(session_subscriptions)
           THEN UNCHANGED <<subscription, session_subscriptions>>
           ELSE /\ subscription' = [s \in Subs |->
                       IF s \in mine THEN Cancel(subscription[s]) ELSE subscription[s]]
                /\ session_subscriptions' = DelItem(session_subscriptions, sid)
        /\ UNCHANGED <<subscriptions, default_queue_size,
                       default_backpressure_strategy, call, clear, app>>

\* len([sub for sub in lst if not sub.is_cancelled]): lines 325, 337
CountActive_All(lst) == Len(lst)
CountActive(lst) == Cardinality({i \in DOMAIN lst : ~subscription[lst[i]].cancelled})

\* the value of get_handler_count(et): lines 335-337
HandlerCount(et) == CountActive(Lookup(subscriptions, et))

\* the value of get_session_handler_count(sid): lines 323-325
SessionHandlerCount(sid) == CountActive(Lookup(session_subscriptions, sid))

\* get_handler_count(et) reads the defaultdict by subscript, which inserts a
\* missing key: line 337
GetHandlerCount(et) ==
    /\ subscriptions' = Touch(subscriptions, et)
    /\ UNCHANGED <<subscription, session_subscriptions, default_queue_size,
                   default_backpressure_strategy, call, clear, app>>

\* get_session_handler_count(sid), likewise: line 325
GetSessionHandlerCount(sid) ==
    /\ session_subscriptions' = Touch(session_subscriptions, sid)
    /\ UNCHANGED <<subscription, subscriptions, default_queue_size,
                   default_backpressure_strategy, call, clear, app>>

\* One pass of the inner loop of get_backpressure_stats: lines 351-358
AddStats_All(stats, rec) ==
    [total_subscriptions |-> stats.total_subscriptions + 1,
     active_subscriptions |-> stats.active_subscriptions + (IF rec.cancelled THEN 0 ELSE 1),
     total_processed |-> stats.total_processed + rec.processed_events,
     total_dropped |-> stats.total_dropped + rec.dropped_events]
AddStats(stats, rec) ==
    IF rec.cancelled
    THEN [stats EXCEPT !.total_subscriptions = @ + 1]
    ELSE [total_subscriptions |-> stats.total_subscriptions + 1,
          active_subscriptions |-> stats.active_subscriptions + 1,
          total_processed |-> stats.total_processed + rec.processed_events,
          total_dropped |-> stats.total_dropped + rec.dropped_events]

\* the loops of get_backpressure_stats from entry li of the list of key ki:
\* lines 349-358
RECURSIVE StatsWalk(_, _, _)
StatsWalk(ki, li, stats) ==
    IF ki > Len(subscriptions) THEN stats
    ELSE IF li > Len(subscriptions[ki].val) THEN StatsWalk(ki + 1, 1, stats)
    ELSE StatsWalk(ki, li + 1, AddStats(stats, subscription[subscriptions[ki].val[li]]))

\* the totals of get_backpressure_stats(): lines 339-360
BackpressureStats ==
    StatsWalk(1, 1, [total_subscriptions |-> 0, active_subscriptions |-> 0,
                     total_processed |-> 0, total_dropped |-> 0])

\* get_active_sessions: lines 327-333
ActiveSessions ==
    {session_subscriptions[i].key : i \in
        {j \in DOMAIN session_subscriptions :
            \E k \in DOMAIN session_subscriptions[j].val :
                ~subscription[session_subscriptions[j].val[k]].cancelled}}

\* the end of clear_all, once its first loop is over: lines 402-410
ClearFinish(subs) ==
    /\ subscription' = [s \in Subs |->
           IF s \in Members(session_subscriptions) THEN Cancel(subs[s]) ELSE subs[s]]
    /\ subscriptions' = <<>>
    /\ session_subscriptions' = <<>>
    /\ call' = [c \in Calls |-> [call[c] EXCEPT !.live = FALSE]]
    /\ clear' = ClearIdle

\* RuntimeError (dictionary changed size during iteration) leaves clear_all
\* through `async with`, which releases the lock
ClearRaise(subs) ==
    /\ subscription' = subs
    /\ clear' = ClearIdle
    /\ UNCHANGED <<subscriptions, session_subscriptions, call>>

ClearGo(w, size) ==
    CASE w.pc = "finish" -> ClearFinish(w.subs)
      [] w.pc = "raise" -> ClearRaise(w.subs)
      [] w.pc = "awaiting" ->
            /\ subscription' = w.subs
            /\ clear' = [ClearIdle EXCEPT !.pc = "awaiting", !.ki = w.ki, !.li = w.li,
                                          !.size = size]
            /\ UNCHANGED <<subscriptions, session_subscriptions, call>>

\* clear_all up to its first suspension: lines 395-410
ClearAll ==
    /\ clear.pc = "idle"
    /\ ClearGo(ClearWalk(subscription, 1, 1, Len(subscriptions)), Len(subscriptions))
    /\ UNCHANGED <<default_queue_size, default_backpressure_strategy, app>>

\* the task clear_all awaits in stop_processing has ended: lines 102, 399-410
ClearAllResume ==
    LET s == subscriptions[clear.ki].val[clear.li]
        subs1 == [subscription EXCEPT ![s].processing_task = FALSE]
    IN  /\ clear.pc = "awaiting"
        /\ Awaited(subscription[s])
        /\ ClearGo(ClearWalk(subs1, clear.ki, clear.li + 1, clear.size), clear.size)
        /\ UNCHANGED <<default_queue_size, default_backpressure_strategy, app>>

\* One atomic block of cleanup_cancelled_subscriptions.  A list the sweep
\* replaces (line 378) is no longer the list an emit in progress iterates.
SweepGo(w, size, o, was) ==
    /\ subscription' = w.subs
    /\ subscriptions' = w.d
    /\ call' = [c \in Calls |->
                  IF call[c].event_type \in w.assigned
                  THEN [call[c] EXCEPT !.live = FALSE] ELSE call[c]]
    /\ clear' = CASE w.pc = "finish" -> LockIdle("returned", w.removed, o, was)
                  [] w.pc = "raise" -> LockIdle("raised", 0, o, was)
                  [] w.pc = "awaiting" ->
                        [pc |-> "sweeping", ki |-> w.ki, li |-> w.li, size |-> size,
                         active |-> w.active, removed |-> w.removed, last |-> "none",
                         out |-> o, was |-> was]
    /\ UNCHANGED <<session_subscriptions, default_queue_size,
                   default_backpressure_strategy, app>>

\* cleanup_cancelled_subscriptions up to its first suspension: lines 362-381
CleanupCancelledSubscriptions ==
    /\ clear.pc = "idle"
    /\ SweepGo(SweepWalk(subscription, subscriptions, 1, 1, <<>>, 0,
                         Len(subscriptions), {}),
               Len(subscriptions),
               Subs \ Members(subscriptions),
               {s \in Subs : subscription[s].cancelled})

\* the task the sweep awaits in stop_processing has ended: lines 102, 373
SweepResume ==
    LET s == subscriptions[clear.ki].val[clear.li]
        subs1 == [subscription EXCEPT ![s].processing_task = FALSE]
    IN  /\ clear.pc = "sweeping"
        /\ Awaited(subscription[s])
        /\ SweepGo(SweepWalk(subs1, subscriptions, clear.ki, clear.li + 1, clear.active,
                             Removed(clear.removed), clear.size, {}),
                   clear.size, clear.out, clear.was)

\* Application.initialize, as far as the bus goes: _subscribe_to_events
\* subscribes _handel_input_events to the three input classifications
\* (src/cli/app.py lines 50-58)
Initialize ==
    LET n == Len(subscription)
        new(et) == NewSubscription("app", et, "", default_queue_size,
                                   default_backpressure_strategy)
        add(d, et, k) == SetItem(d, et, Append(Lookup(d, et), k))
        seen(c, k) == IF call[c].pc = "put" /\ call[c].live
                         /\ call[c].event_type = subscription'[k].event_type
                      THEN <<k>> ELSE <<>>
    IN  /\ ~app.initialized
        /\ subscription' = subscription \o
               <<new("input | text"), new("input | command"), new("input | exit")>>
        /\ subscriptions' = add(add(add(subscriptions, "input | text", n + 1),
                                    "input | command", n + 2), "input | exit", n + 3)
        /\ call' = [c \in Calls |->
                      [call[c] EXCEPT !.list = @ \o seen(c, n + 1) \o seen(c, n + 2)
                                                 \o seen(c, n + 3)]]
        /\ app' = [app EXCEPT !.initialized = TRUE, !.terminate_app = FALSE]
        /\ UNCHANGED <<session_subscriptions, default_queue_size,
                       default_backpressure_strategy, clear>>

\* One pass of the loop of Application.run that finds an event in
\* _input_events, and the rest of a pass that waited in reset_event_bus
\* (src/cli/app.py lines 69-84, 86-90).  On "input | exit" the pass awaits
\* clear_all (through reset_event_bus) and then sets _terminate_app; a
\* RuntimeError of clear_all leaves run.
Run ==
    LET exiting == app.pc = "exiting"
        event == Head(app.input_events)
        s == subscriptions[clear.ki].val[clear.li]
        w == IF exiting
             THEN ClearWalk([subscription EXCEPT ![s].processing_task = FALSE],
                            clear.ki, clear.li + 1, clear.size)
             ELSE ClearWalk(subscription, 1, 1, Len(subscriptions))
        size == IF exiting THEN clear.size ELSE Len(subscriptions)
        rest == IF exiting THEN app.input_events ELSE Tail(app.input_events)
    IN  /\ app.initialized
        /\ ~app.terminate_app
        /\ IF exiting
           THEN clear.pc = "awaiting" /\ subscription[s].task = "done"
           ELSE app.pc = "run" /\ app.input_events # <<>>
        /\ IF exiting \/ call[event].event_type = "input | exit"
           THEN /\ exiting \/ clear.pc = "idle"
                /\ ClearGo(w, size)
                /\ app' = [app EXCEPT !.input_events = rest,
                                      !.terminate_app = w.pc = "finish",
                                      !.pc = CASE w.pc = "finish" -> "run"
                                               [] w.pc = "raise" -> "raised"
                                               [] w.pc = "awaiting" -> "exiting"]
           ELSE /\ app' = [app EXCEPT !.input_events = rest,
                                      !.handled = Append(@, event)]
                /\ UNCHANGED <<subscription, subscriptions, session_subscriptions,
                               call, clear>>
        /\ UNCHANGED <<default_queue_size, default_backpressure_strategy>>

\* the steps of the tasks of the subscriptions and of suspended producers
Tasks ==
    \/ \E s \in Subs : StartProcessing(s)
    \/ \E s \in Subs : ConsumerStart(s)
    \/ \E s \in Subs : ConsumerTimeout(s)
    \/ \E s \in Subs : ConsumerGet(s)
    \/ \E s \in Subs : HandlerReturn(s)
    \/ \E s \in Subs : HandlerRaise(s)
    \/ \E s \in Subs : ConsumerCancelled(s)
    \/ \E s \in Subs : CleanupRun(s)
    \/ \E s \in Subs : CleanupResume(s)
    \/ \E c \in Calls : ResumePut(c)

\* the steps of a consumer whose subscription nobody cancels
Consume ==
    \/ \E s \in Subs : StartProcessing(s)
    \/ \E s \in Subs : ConsumerStart(s)
    \/ \E s \in Subs : ConsumerGet(s)
    \/ \E s \in Subs : HandlerReturn(s)
    \/ \E s \in Subs : HandlerRaise(s)

\* the steps that end the consumer of a cancelled subscription
WindDown ==
    \/ \E s \in Subs : ConsumerTimeout(s)
    \/ \E s \in Subs : ConsumerCancelled(s)
    \/ \E s \in Subs : CleanupRun(s)
    \/ \E s \in Subs : CleanupResume(s)

\* One subscription of a bus, made by subscribe or subscribe_once, with its
\* producers (emit and direct enqueue_event calls), its consumer, cancel()
\* and global strategy changes.
NextSub ==
    \/ Len(subscription) < 1 /\ Subscribe("part_start | text")
    \/ Len(subscription) < 1 /\ SubscribeOnce("part_start | text")
    \/ Len(call) < MaxEvents /\ Emit("part_start | text", "A")
    \/ Len(call) < MaxEvents /\ \E s \in Subs : EnqueueDirect(s, "A")
    \/ \E s \in Subs : CancelSub(s)
    \/ \E strategy \in BackpressureStrategy : SetGlobalBackpressureStrategy(strategy)
    \/ Tasks

SpecSub == Init /\ [][NextSub]_vars

\* Several subscriptions of one classification on a bus whose strategy is the
\* one it was constructed with, with emit's fan-out, cancel() and clear_all.
NextBus ==
    \/ Len(subscription) < MaxSubs /\ Subscribe("part_start | text")
    \/ Len(call) < MaxBusEvents /\ Emit("part_start | text", "A")
    \/ \E s \in Subs : CancelSub(s)
    \/ ClearAll
    \/ ClearAllResume
    \/ Tasks

SpecBus == Init /\ [][NextBus]_vars

\* Subscriptions of two classifications that nobody cancels, with emits of
\* either classification.
NextTypes ==
    \/ Len(subscription) < MaxSubs /\ \E et \in EventTypes : Subscribe(et)
    \/ Len(call) < MaxBusEvents /\ \E et \in EventTypes : Emit(et, "A")
    \/ Consume
    \/ \E c \in Calls : ResumePut(c)

SpecTypes == Init /\ [][NextTypes]_vars

\* Two subscriptions of one classification, made by subscribe, subscribe_once
\* or subscribe_session, that only a subscribe_once wrapper cancels: the
\* cancelled consumer has left its loop by the time stop_processing runs.
NextRaise ==
    \/ Len(subscription) < 2 /\ Subscribe("part_start | text")
    \/ Len(subscription) < 2 /\ SubscribeOnce("part_start | text")
    \/ Len(subscription) < 2 /\ SubscribeSession("A", "part_start | text")
    \/ Len(call) < MaxBusEvents /\ Emit("part_start | text", "A")
    \/ Consume
    \/ \E s \in Subs : CleanupRun(s)
    \/ \E c \in Calls : ResumePut(c)

SpecRaise == Init /\ [][NextRaise]_vars

\* Two subscriptions of one classification, made by subscribe, subscribe_once
\* or subscribe_session, with global strategy changes and emits.  Only a
\* subscribe_once wrapper cancels: the cancelled consumer has left its loop
\* by the time stop_processing runs.
NextStrategy ==
    \/ Len(subscription) < 2 /\ Subscribe("part_start | text")
    \/ Len(subscription) < 2 /\ SubscribeSession("A", "part_start | text")
    \/ Len(subscription) < 2 /\ SubscribeOnce("part_start | text")
    \/ Len(call) < MaxStrategyEvents /\ Emit("part_start | text", "A")
    \/ \E strategy \in BackpressureStrategy : SetGlobalBackpressureStrategy(strategy)
    \/ Consume
    \/ \E s \in Subs : CleanupRun(s)
    \/ \E c \in Calls : ResumePut(c)

SpecStrategy == Init /\ [][NextStrategy]_vars

\* The same on a bus constructed with its default arguments, where no put
\* finds a queue full.
NextDefaultBus ==
    \/ Len(subscription) < 2 /\ Subscribe("part_start | text")
    \/ Len(subscription) < 2 /\ SubscribeSession("A", "part_start | text")
    \/ Len(subscription) < 2 /\ SubscribeOnce("part_start | text")
    \/ Len(call) < MaxStrategyEvents /\ Emit("part_start | text", "A")
    \/ \E strategy \in BackpressureStrategy : SetGlobalBackpressureStrategy(strategy)
    \/ Consume
    \/ \E s \in Subs : CleanupRun(s)

SpecDefaultBus == InitDefault /\ [][NextDefaultBus]_vars

\* A bus constructed with default_backpressure_strategy = DROP_OLDEST and one
\* subscription that nobody cancels, with its producers and its consumer (no
\* put finds the queue full, so no producer is ever suspended).
InitOldest == Init /\ default_backpressure_strategy = DROP_OLDEST

NextOldest ==
    \/ Len(subscription) < 1 /\ Subscribe("part_start | text")
    \/ Len(call) < MaxOldestEvents /\ Emit("part_start | text", "A")
    \/ Consume

SpecOldest == InitOldest /\ [][NextOldest]_vars

\* One subscribe_once subscription, which its own handler wrapper cancels,
\* with its producers, its consumer and cleanup_cancelled_subscriptions.  The
\* consumer task has ended when the sweep finds the subscription cancelled,
\* so the sweep never waits.
NextEvict ==
    \/ Len(subscription) < 1 /\ SubscribeOnce("part_start | text")
    \/ Len(call) < MaxEvictEvents /\ Emit("part_start | text", "A")
    \/ CleanupCancelledSubscriptions
    \/ Consume
    \/ \E s \in Subs : CleanupRun(s)
    \/ \E c \in Calls : ResumePut(c)

SpecEvict == Init /\ [][NextEvict]_vars

\* Two subscriptions of one classification that nobody cancels, with emits,
\* of which some meet an exception in an enqueue_event, and the consumers.
NextFail ==
    \/ Len(subscription) < 2 /\ Subscribe("part_start | text")
    \/ Len(call) < MaxFailEvents /\ Emit("part_start | text", "A")
    \/ Len(call) < MaxFailEvents /\ \E i \in 1..2 : EmitFailing("part_start | text", "A", i)
    \/ Consume
    \/ \E c \in Calls : ResumePut(c)

SpecFail == Init /\ [][NextFail]_vars

\* Two subscriptions, each of one of three classifications, that nobody
\* cancels, with emits of StreamOutEvents of every payload and the consumers.
NextStream ==
    \/ Len(subscription) < 2 /\ \E et \in StreamKeys : Subscribe(et)
    \/ Len(call) < MaxStreamEvents /\ \E data \in Payloads : EmitStream(data)
    \/ Consume
    \/ \E c \in Calls : ResumePut(c)

SpecStream == Init /\ [][NextStream]_vars

\* Two subscriptions of one classification, plain or of a session, on a bus
\* constructed with its default arguments, with cancel(), the three cleanup
\* operations and the count queries (which may name a classification or a
\* session nobody subscribed to); nothing is emitted, so a consumer never
\* gets an event.
NextCounts ==
    \/ Len(subscription) < 2 /\ Subscribe("part_start | text")
    \/ Len(subscription) < 2 /\ \E sid \in Sessions :
          SubscribeSession(sid, "part_start | text")
    \/ \E s \in Subs : CancelSub(s)
    \/ \E sid \in Sessions : CleanupSession(sid)
    \/ CleanupCancelledSubscriptions
    \/ SweepResume
    \/ ClearAll
    \/ ClearAllResume
    \/ \E et \in EventTypes : GetHandlerCount(et)
    \/ \E sid \in Sessions : GetSessionHandlerCount(sid)
    \/ \E s \in Subs : StartProcessing(s)
    \/ \E s \in Subs : ConsumerStart(s)
    \/ WindDown

SpecCounts == InitDefault /\ [][NextCounts]_vars

\* The Application on the bus of get_event_bus() (a bus constructed with its
\* default arguments), with the inputs of the user.  Nothing cancels a
\* subscription or its task unless the run loop reaches its exit branch.
NextApp ==
    \/ Initialize
    \/ Len(call) < MaxInputs /\ \E data \in Texts : EmitInput(data)
    \/ Consume
    \/ Run

SpecApp == InitDefault /\ [][NextApp]_vars

\* One subscription that lives in a scope (temporary_subscription or a with
\* statement) which nothing else cancels, with its producers and its consumer.
NextScope ==
    \/ Len(subscription) < 1 /\ TemporarySubscription("part_start | text")
    \/ Len(subscription) < 1 /\ WithSubscription("part_start | text")
    \/ Len(call) < MaxScopeEvents /\ Emit("part_start | text", "A")
    \/ Len(call) < MaxScopeEvents /\ \E s \in Subs : EnqueueDirect(s, "A")
    \/ \E s \in Subs : ScopeExit(s)
    \/ \E s \in Subs : ScopeRaise(s)
    \/ Tasks

SpecScope == Init /\ [][NextScope]_vars

\* Two subscriptions of either classification on a bus constructed with its
\* default arguments (no put finds a queue full), with emits, cancel() and
\* cleanup_cancelled_subscriptions.
NextSweep ==
    \/ Len(subscription) < 2 /\ \E et \in EventTypes : Subscribe(et)
    \/ Len(call) < MaxSweepEvents /\ \E et \in EventTypes : Emit(et, "A")
    \/ \E s \in Subs : CancelSub(s)
    \/ CleanupCancelledSubscriptions
    \/ SweepResume
    \/ Consume
    \/ WindDown

SpecSweep == InitDefault /\ [][NextSweep]_vars

\* Two session subscriptions of one classification, with emits tagged with either
\* session and cleanup_session.  A session subscription has the capacity and
\* the strategy of EventSubscription.__init__'s defaults, so no put suspends.
NextSession ==
    \/ Len(subscription) < 2 /\ \E sid \in Sessions :
           SubscribeSession(sid, "part_start | text")
    \/ Len(call) < MaxSessionEvents /\ \E sid \in Sessions : Emit("part_start | text", sid)
    \/ \E sid \in Sessions : CleanupSession(sid)
    \/ Consume
    \/ WindDown

SpecSession == InitDefault /\ [][NextSession]_vars

\* the consumer and the cleanup tasks are scheduled by the event loop, which
\* runs every ready task: weak fairness of each of their steps
Fairness ==
    /\ WF_vars(\E s \in Subs : StartProcessing(s))
    /\ WF_vars(\E s \in Subs : ConsumerStart(s))
    /\ WF_vars(\E s \in Subs : ConsumerTimeout(s))
    /\ WF_vars(\E s \in Subs : ConsumerGet(s))
    /\ WF_vars(\E s \in Subs : HandlerReturn(s))
    /\ WF_vars(\E s \in Subs : ConsumerCancelled(s))
    /\ WF_vars(\E s \in Subs : CleanupRun(s))
    /\ WF_vars(\E s \in Subs : CleanupResume(s))
    /\ WF_vars(\E c \in Calls : ResumePut(c))
    /\ WF_vars(ClearAllResume)

SpecBusFair == SpecBus /\ Fairness

\* One subscription with its producers, its consumer and cancel().  The
\* event loop runs every ready task, but nothing makes a handler return.
NextCancel ==
    \/ Len(subscription) < 1 /\ Subscribe("part_start | text")
    \/ Len(call) < MaxCancelEvents /\ Emit("part_start | text", "A")
    \/ \E s \in Subs : CancelSub(s)
    \/ Tasks

Scheduling ==
    /\ WF_vars(\E s \in Subs : StartProcessing(s))
    /\ WF_vars(\E s \in Subs : ConsumerStart(s))
    /\ WF_vars(\E s \in Subs : ConsumerTimeout(s))
    /\ WF_vars(\E s \in Subs : ConsumerGet(s))
    /\ WF_vars(\E s \in Subs : ConsumerCancelled(s))
    /\ WF_vars(\E s \in Subs : CleanupRun(s))
    /\ WF_vars(\E s \in Subs : CleanupResume(s))
    /\ WF_vars(\E c \in Calls : ResumePut(c))

SpecCancel == Init /\ [][NextCancel]_vars /\ Scheduling

\* One subscription with a handler that is not a coroutine function, whose
\* holder calls stop_processing, start_processing and cancel directly.
NextRestart ==
    \/ Len(subscription) < 1 /\ Subscribe("part_start | text")
    \/ Len(call) < MaxRestartEvents /\ Emit("part_start | text", "A")
    \/ \E s \in Subs : StartProcessing(s)
    \/ \E s \in Subs : RestartProcessing(s)
    \/ \E s \in Subs : StopProcessing(s)
    \/ \E s \in Subs : CancelSub(s)
    \/ \E s \in Subs : CleanupRun(s)
    \/ \E s \in Subs : CleanupResume(s)
    \/ \E s \in Subs : ConsumerStart(s)
    \/ \E s \in Subs : ConsumerTimeout(s)
    \/ \E s \in Subs : ConsumerGet(s)
    \/ \E s \in Subs : HandlerReturn(s)
    \/ \E s \in Subs : subscription[s].task # "handler" /\ ConsumerCancelled(s)
    \/ \E s \in Subs : ExecutorCancelled(s)
    \/ \E s \in Subs : ThreadReturn(s)

SpecRestart == InitDefault /\ [][NextRestart]_vars

\* ======================================================= properties
Inflight(rec) == IF rec.current # 0 THEN 1 ELSE 0

LastN(seq, n) == SubSeq(seq, Len(seq) - n + 1, Len(seq))

Position(seq, e) == CHOOSE i \in DOMAIN seq : seq[i] = e

Range(seq) == {seq[i] : i \in DOMAIN seq}

\* the log entries a step adds to call c
NewLog(c) ==
    IF c \in DOMAIN call
    THEN SubSeq(call'[c].log, Len(call[c].log) + 1, Len(call'[c].log))
    ELSE call'[c].log

\* the results of the enqueue_event calls that start in a step within call c:
\* all it logs, but for the call that a suspended put resumes
Started(c) ==
    IF c \in DOMAIN call /\ NewLog(c) # <<>> THEN Tail(NewLog(c)) ELSE NewLog(c)

\* the enqueue_event calls on s that returned False
Refused(s) ==
    Cardinality({c \in Calls : \E k \in DOMAIN call[c].log :
                                  call[c].log[k] = [sub |-> s, ok |-> FALSE]})

\* the target of a suspended put
Target(c) == call[c].list[call[c].idx]

\* C1: the queue of a subscription of capacity C >= 1 never holds more than
\* C events.
C1_QueueWithinCapacity ==
    \A s \in Subs :
        subscription[s].queue_size >= 1
            => Len(subscription[s].event_queue) <= subscription[s].queue_size

C1_Witness ==
    \E s \in Subs :
        /\ Len(subscription[s].event_queue) = subscription[s].queue_size
        /\ subscription[s].queue_size = MaxQueue
        /\ subscription[s].dropped_events > 0

\* C2 as stated: dropped_count + processed_count + queue size equals the
\* number of events accepted into the queue, at every observation point.
C2_AsStated ==
    \A s \in Subs :
        subscription[s].dropped_events + subscription[s].processed_events
            + Len(subscription[s].event_queue) = Len(subscription[s].admitted)

\* C2 (amended): dropped_count + processed_count + queue size, plus the
\* events taken from the queue whose handler run is in progress, raised or
\* was cancelled, equals the number of accepted events plus the number of
\* enqueue_event calls refused on a full queue.
C2_Accounting ==
    \A s \in Subs :
        subscription[s].dropped_events + subscription[s].processed_events
            + Len(subscription[s].event_queue) + Inflight(subscription[s])
            + subscription[s].unprocessed
          = Len(subscription[s].admitted) + subscription[s].rejected

C2_Witness ==
    \E s \in Subs :
        /\ subscription[s].rejected > 0
        /\ subscription[s].unprocessed > 0
        /\ subscription[s].current # 0

\* C3: cancel() leaves is_cancelled true, and an enqueue_event call (or an
\* emit) that starts on a cancelled subscription returns False at once and
\* changes nothing of the subscription.
C3_Step ==
    \A s \in Subs :
        /\ CancelSub(s) => subscription'[s].cancelled
        /\ subscription[s].cancelled =>
             \A c \in DOMAIN call' \ DOMAIN call :
                 /\ subscription'[s] = subscription[s]
                 /\ call'[c].mode = "direct" /\ call'[c].list = <<s>> =>
                        /\ call'[c].pc = "done"
                        /\ call'[c].log = <<[sub |-> s, ok |-> FALSE]>>
                 /\ call'[c].mode = "emit" =>
                        \A k \in DOMAIN call'[c].log : call'[c].log[k].sub # s

C3_CancelledRejects == [][C3_Step]_vars

C3_Witness ==
    \E s \in Subs, c \in Calls :
        /\ subscription[s].cancelled
        /\ subscription[s].rejected = 0
        /\ subscription[s].event_queue # <<>>
        /\ call[c].mode = "direct"
        /\ call[c].log = <<[sub |-> s, ok |-> FALSE]>>

\* C4 as stated: while an emit is suspended on a BLOCK subscriber with a full
\* queue, no other matching, non-cancelled subscriber with room in its queue
\* is left without its enqueue attempt (the suspended put has no step to take
\* while that queue stays full, so what is not attempted then is not
\* attempted for as long as the blocked subscriber frees no space).
C4_ConcurrentFanOut ==
    \A c \in Calls :
        call[c].mode = "emit" /\ call[c].pc = "put" /\ Full(subscription[Target(c)])
            => \A j \in DOMAIN call[c].list :
                   j > call[c].idx =>
                       \/ subscription[call[c].list[j]].cancelled
                       \/ Full(subscription[call[c].list[j]])

\* C5 as stated: an enqueue_event suspended under BLOCK does not stay
\* suspended on a full queue once its subscription is cancelled.
C5_CancelReleasesBlockedPut ==
    \A c \in Calls :
        call[c].pc = "put" =>
            ~(subscription[Target(c)].cancelled /\ Full(subscription[Target(c)]))

\* C6: under DROP_OLDEST an enqueue_event on a non-cancelled subscription
\* returns True and puts the event at the tail, removing exactly the oldest
\* element and counting one drop when the queue is full, and removing nothing
\* otherwise; so N > C events enqueued with no consumption in between leave
\* the last C in order with dropped_count = N - C, and the handler then gets
\* exactly those with processed_count = C.
C6_Enqueue(s) ==
    \A c \in DOMAIN call' : \A k \in DOMAIN Started(c) :
        /\ Started(c)[k].sub = s
        /\ subscription[s].backpressure_strategy = DROP_OLDEST
        /\ ~subscription[s].cancelled
        => /\ Started(c)[k].ok
           /\ subscription'[s].event_queue =
                  Append(IF Full(subscription[s])
                         THEN Tail(subscription[s].event_queue)
                         ELSE subscription[s].event_queue, c)
           /\ subscription'[s].dropped_events =
                  subscription[s].dropped_events + (IF Full(subscription[s]) THEN 1 ELSE 0)

\* every enqueue was accepted and N - C of them found the queue full: nothing
\* was consumed before the last one
C6_Overrun(rec) ==
    /\ rec.backpressure_strategy = DROP_OLDEST
    /\ rec.rejected = 0
    /\ Len(rec.admitted) > rec.queue_size
    /\ rec.dropped_events = Len(rec.admitted) - rec.queue_size

C6_After(rec) ==
    /\ C6_Overrun(rec) /\ rec.delivered = <<>>
         => rec.event_queue = LastN(rec.admitted, rec.queue_size)
    /\ C6_Overrun(rec) /\ rec.event_queue = <<>> /\ rec.current = 0 /\ rec.unprocessed = 0
         => /\ rec.delivered = LastN(rec.admitted, rec.queue_size)
            /\ rec.processed_events = rec.queue_size

C6_DropOldest ==
    [][\A s \in Subs : C6_Enqueue(s) /\ C6_After(subscription'[s])]_vars

C6_Witness ==
    \E s \in Subs :
        /\ C6_Overrun(subscription[s])
        /\ subscription[s].queue_size = MaxQueue
        /\ subscription[s].event_queue = <<>>
        /\ subscription[s].processed_events = MaxQueue

\* C7: under DROP_NEWEST an enqueue_event on a full queue leaves the queue as
\* it is, counts one drop and returns False, and on a queue with room puts the
\* event at the tail and returns True without counting; so, nothing being
\* evicted, the accepted events are delivered in order and dropped_count is
\* the number of refused calls.
C7_Enqueue(s) ==
    \A c \in DOMAIN call' : \A k \in DOMAIN Started(c) :
        /\ Started(c)[k].sub = s
        /\ subscription[s].backpressure_strategy = DROP_NEWEST
        /\ ~subscription[s].cancelled
        => IF Full(subscription[s])
           THEN /\ ~Started(c)[k].ok
                /\ subscription'[s].event_queue = subscription[s].event_queue
                /\ subscription'[s].dropped_events = subscription[s].dropped_events + 1
           ELSE /\ Started(c)[k].ok
                /\ subscription'[s].event_queue = Append(subscription[s].event_queue, c)
                /\ subscription'[s].dropped_events = subscription[s].dropped_events

C7_After(s) ==
    LET rec == subscription'[s] IN
        /\ rec.backpressure_strategy = DROP_NEWEST
        /\ ~rec.cancelled
        /\ Len(rec.admitted) = Len(rec.delivered) + Len(rec.event_queue)
        => /\ rec.delivered \o rec.event_queue = rec.admitted
           /\ rec.dropped_events = Refused(s)'

C7_DropNewest ==
    [][\A s \in Subs : C7_Enqueue(s) /\ C7_After(s)]_vars

C7_Witness ==
    \E s \in Subs :
        /\ subscription[s].backpressure_strategy = DROP_NEWEST
        /\ ~subscription[s].cancelled
        /\ subscription[s].queue_size = MaxQueue
        /\ Len(subscription[s].delivered) = MaxQueue
        /\ subscription[s].delivered = subscription[s].admitted
        /\ subscription[s].dropped_events = 1
        /\ Refused(s) = 1

\* C8: the handler of a subscription gets events in the order in which they
\* were admitted to its queue.
C8_Fifo ==
    \A s \in Subs :
        LET d == subscription[s].delivered
            a == subscription[s].admitted
        IN  /\ Range(d) \subseteq Range(a)
            /\ \A i, j \in DOMAIN d : i < j => Position(a, d[i]) < Position(a, d[j])

C8_Witness ==
    \E s \in Subs :
        /\ Len(subscription[s].delivered) >= 2
        /\ subscription[s].delivered[1] > subscription[s].delivered[2]

\* C9 as stated: in a subscription that is started and not cancelled, an
\* event in the queue is eventually passed to the handler, unless DROP_OLDEST
\* evicts it or the subscription is cancelled.
C9_Pending(s, e) == s \in Subs /\ e \in Range(subscription[s].event_queue)

C9_Settled(s, e) ==
    /\ s \in Subs
    /\ \/ e \in Range(subscription[s].delivered)
       \/ e \notin Range(subscription[s].event_queue)
       \/ subscription[s].cancelled

C9_EventuallyDelivered ==
    \A s \in 1..MaxSubs : \A e \in 1..MaxBusEvents : C9_Pending(s, e) ~> C9_Settled(s, e)

\* C10: the handler given to subscribe_once runs at most once, and once that
\* run is over, by return or by exception, the subscription is cancelled.
C10_Once ==
    \A s \in Subs :
        subscription[s].kind = "once"
            => /\ Len(subscription[s].delivered) <= 1
               /\ Len(subscription[s].delivered) = 1 /\ subscription[s].task # "handler"
                      => subscription[s].cancelled

C10_Witness ==
    \E s \in Subs :
        /\ subscription[s].kind = "once"
        /\ Len(subscription[s].delivered) = 1
        /\ subscription[s].unprocessed = 1
        /\ subscription[s].cancelled
        /\ Len(subscription[s].event_queue) >= 1
        /\ Len(subscription[s].admitted) = MaxEvents

\* C11: the user's handler of a session subscription only ever runs on an
\* event whose session_id is the session the subscription is bound to.
C11_SessionFilter ==
    \A s \in Subs :
        subscription[s].kind = "session" /\ subscription[s].task = "handler"
            => call[subscription[s].current].session_id = subscription[s].session_id

C11_Witness ==
    \E a, b \in Subs : \E e \in Calls :
        /\ subscription[a].session_id = "A"
        /\ subscription[b].session_id = "B"
        /\ subscription[a].event_type = subscription[b].event_type
        /\ call[e].session_id = "A"
        /\ subscription[a].task = "handler" /\ subscription[a].current = e
        /\ e \in Range(subscription[b].delivered)
        /\ subscription[b].task = "get"

\* C12: an emit, in each of its steps, changes nothing of a subscription
\* registered under another classification than the event's, and every
\* enqueue_event it makes is on a subscription of the event's classification.
C12_Step ==
    \A c \in DOMAIN call' :
        /\ (c \notin DOMAIN call \/ call'[c].log # call[c].log)
              => \A s \in Subs :
                     subscription[s].event_type # call'[c].event_type
                         => subscription'[s] = subscription[s]
        /\ \A k \in DOMAIN call'[c].log :
              subscription'[call'[c].log[k].sub].event_type = call'[c].event_type

C12_OnlyOwnClassification == [][C12_Step]_vars

C12_Witness ==
    \E s1, s2 \in Subs : \E c \in Calls :
        /\ s2 < s1
        /\ subscription[s1].event_type # subscription[s2].event_type
        /\ call[c].event_type = subscription[s1].event_type
        /\ c \in Range(subscription[s1].admitted)
        /\ subscription[s2].admitted = <<>>
        /\ subscription[s2].task = "get"

\* C13 as stated: no emit leaves a matching, non-cancelled subscription
\* without its enqueue attempt.  An emit suspended in the put of a cancelled
\* subscription whose queue is full and whose consumer task has ended has no
\* step left to take, so the subscriptions after it in the list are left out.
C13_NoneLeftOut ==
    \A c \in Calls :
        /\ call[c].mode = "emit" /\ call[c].pc = "put"
        /\ subscription[Target(c)].cancelled
        /\ subscription[Target(c)].task = "done"
        /\ Full(subscription[Target(c)])
        => \A j \in DOMAIN call[c].list :
               j > call[c].idx => subscription[call[c].list[j]].cancelled

\* C14: a step of an emit (or of a direct enqueue_event) invokes no handler:
\* it changes neither what a handler was given, nor the position of a
\* consumer task, nor processed_count; what a handler was given changes only
\* in a step of the consumer task waiting in get().  An emit whose
\* non-cancelled subscriptions all use DROP_OLDEST or DROP_NEWEST is over in
\* the step in which it starts, whatever the handlers are doing.
C14_Step ==
    /\ \A c \in DOMAIN call' :
          (c \notin DOMAIN call \/ call'[c].log # call[c].log \/ call'[c].pc # call[c].pc)
              => \A s \in Subs :
                     /\ subscription'[s].delivered = subscription[s].delivered
                     /\ subscription'[s].task = subscription[s].task
                     /\ subscription'[s].current = subscription[s].current
                     /\ subscription'[s].processed_events = subscription[s].processed_events
    /\ \A s \in Subs :
          subscription'[s].delivered # subscription[s].delivered
              => subscription[s].task = "get" /\ call' = call
    /\ \A c \in DOMAIN call' \ DOMAIN call :
          /\ call'[c].mode = "emit"
          /\ \A j \in DOMAIN call'[c].list :
                \/ subscription[call'[c].list[j]].cancelled
                \/ subscription[call'[c].list[j]].backpressure_strategy # BLOCK
          => call'[c].pc = "done"

C14_EmitRunsNoHandler == [][C14_Step]_vars

C14_Witness ==
    \E s \in Subs : \E c \in Calls :
        /\ subscription[s].backpressure_strategy # BLOCK
        /\ subscription[s].task = "handler"
        /\ subscription[s].current # 0 /\ subscription[s].current < c
        /\ call[c].mode = "emit" /\ call[c].pc = "done"
        /\ call[c].log = <<[sub |-> s, ok |-> TRUE]>>
        /\ c \in Range(subscription[s].event_queue)
        /\ subscription[s].processed_events = 0

\* C15: the consumer task of a cancelled subscription eventually ends,
\* whether cancel() came before the task was created, while it waited on the
\* queue or while the handler was running (and however long the handler runs).
C15_CancelledTaskEnds ==
    (1 \in Subs /\ subscription[1].cancelled)
        ~> (1 \in Subs /\ subscription[1].task = "done")

C15_Witness ==
    \E s \in Subs :
        /\ subscription[s].cancelled
        /\ subscription[s].task = "done"
        /\ subscription[s].cleanup = "done"
        /\ ~subscription[s].processing_task
        /\ subscription[s].unprocessed = 1

\* C16 as stated: the step in which clear_all completes (it empties the
\* registry) leaves every subscription that was registered cancelled, with no
\* consumer task and none about to be created, and both registries empty.
C16_Step ==
    subscriptions # <<>> /\ subscriptions' = <<>>
        => /\ session_subscriptions' = <<>>
           /\ \A s \in Members(subscriptions) :
                 /\ subscription'[s].cancelled
                 /\ ~subscription'[s].processing_task
                 /\ ~subscription'[s].starting

C16_ClearAllCancels == [][C16_Step]_vars

\* C17: cleanup_session(id) cancels every subscription registered under id,
\* removes the entry of id so that get_active_sessions() does not list it, and
\* leaves the subscriptions and the entries of other sessions alone; with no
\* entry for id it changes nothing.  A cancelled session subscription admits
\* no event emitted afterwards, so none is delivered to it.
C17_Cleanup(sid) ==
    LET lst == Lookup(session_subscriptions, sid)
        mine == {lst[i] : i \in DOMAIN lst}
    IN  IF sid \in Keys(session_subscriptions)
        THEN /\ \A s \in mine : subscription'[s].cancelled
             /\ sid \notin Keys(session_subscriptions')
             /\ sid \notin ActiveSessions'
             /\ \A s \in Subs \ mine : subscription'[s] = subscription[s]
             /\ \A k \in Keys(session_subscriptions) \ {sid} :
                   /\ k \in Keys(session_subscriptions')
                   /\ Lookup(session_subscriptions', k) = Lookup(session_subscriptions, k)
        ELSE UNCHANGED vars

C17_Step ==
    /\ \A sid \in Sessions : CleanupSession(sid) => C17_Cleanup(sid)
    /\ \A s \in Subs :
          subscription[s].kind = "session" /\ subscription[s].cancelled
              => /\ subscription'[s].admitted = subscription[s].admitted
                 /\ Range(subscription'[s].delivered) \subseteq Range(subscription[s].admitted)

C17_CleanupSession == [][C17_Step]_vars

C17_Witness ==
    \E a, b \in Subs : \E c \in Calls :
        /\ subscription[a].session_id = "A" /\ subscription[a].cancelled
        /\ subscription[b].session_id = "B" /\ ~subscription[b].cancelled
        /\ "A" \notin Keys(session_subscriptions)
        /\ ActiveSessions = {"B"}
        /\ call[c].session_id = "A"
        /\ \E j \in DOMAIN call[c].list : call[c].list[j] = a
        /\ call[c].log = <<[sub |-> b, ok |-> TRUE]>>
        /\ subscription[a].admitted # <<>>
        /\ c \notin Range(subscription[a].admitted)

\* C18 as stated: when the consumer of a session subscription takes an event
\* of another session, the user's handler is not invoked and neither
\* processed_count nor dropped_count changes.
C18_Step ==
    \A s \in Subs :
        LET d == subscription'[s].delivered IN
            /\ subscription[s].kind = "session"
            /\ d # subscription[s].delivered
            /\ call[d[Len(d)]].session_id # subscription[s].session_id
            => /\ subscription'[s].task # "handler"
               /\ subscription'[s].processed_events = subscription[s].processed_events
               /\ subscription'[s].dropped_events = subscription[s].dropped_events

C18_MismatchNotCounted == [][C18_Step]_vars

\* C19 as stated: a handler that raises leaves its subscription not
\* cancelled and its loop waiting for the next event, whatever made the
\* subscription.
C19_Raise(s) ==
    /\ subscription'[s].cancelled = subscription[s].cancelled
    /\ ~subscription[s].cancelled => subscription'[s].task = "get"
    /\ subscription'[s].event_queue = subscription[s].event_queue
    /\ \A o \in Subs \ {s} : subscription'[o] = subscription[o]

C19_AsStated ==
    [][\A s \in Subs : HandlerRaise(s) => C19_Raise(s)]_vars

\* C19 (amended): a handler that raises in a subscription made by subscribe
\* or subscribe_session leaves the subscription as cancelled or not as it was,
\* its loop waiting for the next event, its queue and every other subscription
\* untouched; and the events a subscription is given are in the order of their
\* admission, before and after a failure.
C19_Step ==
    /\ \A s \in Subs :
          HandlerRaise(s) /\ subscription[s].kind # "once" => C19_Raise(s)
    /\ \A s \in Subs :
          LET d == subscription'[s].delivered
              a == subscription'[s].admitted
          IN  \A i, j \in DOMAIN d :
                  i < j => d[i] \in Range(a) /\ d[j] \in Range(a)
                           /\ Position(a, d[i]) < Position(a, d[j])

C19_RaiseKeepsLoop == [][C19_Step]_vars

C19_Witness ==
    \E s, o \in Subs :
        /\ s # o
        /\ subscription[s].kind = "plain" /\ ~subscription[s].cancelled
        /\ subscription[s].unprocessed = 1
        /\ subscription[s].processed_events = 0
        /\ Len(subscription[s].delivered) = 2
        /\ subscription[s].task = "handler"
        /\ subscription[o].processed_events = 2

\* C20 as stated: processed_count goes up only for an invocation of the
\* user's handler that returns; one that raises leaves it as it is, in a
\* session subscription as in a plain one.  (In a session subscription the
\* step of a handler that raises is the very step of one that returns:
\* session_handler swallows the exception, so the counters cannot tell them
\* apart.)
C20_Step ==
    \A s \in Subs :
        HandlerRaise(s)
            => subscription'[s].processed_events = subscription[s].processed_events

C20_RaiseNotCounted == [][C20_Step]_vars

\* C21 as stated: on a bus constructed with its defaults, a subscription made
\* by subscribe, subscribe_once or subscribe_session has, when it is made, the
\* strategy of the last set_global_backpressure_strategy (the bus's default
\* strategy, which on this bus differs from DROP_OLDEST only after a global
\* change).
C21_Step ==
    \A s \in DOMAIN subscription' \ DOMAIN subscription :
        subscription'[s].backpressure_strategy = default_backpressure_strategy

C21_NewSubscriptionsFollowGlobal == [][C21_Step]_vars

\* C22: set_global_backpressure_strategy(S) gives strategy S to every
\* registered subscription that is not cancelled, leaves the strategy of a
\* cancelled one, and changes no queue, no counter and nothing else of any
\* subscription; and an enqueue_event that starts on a subscription follows
\* the strategy the subscription has then.
C22_Global(S) ==
    /\ \A s \in Subs :
          /\ s \in Members(subscriptions) /\ ~subscription[s].cancelled
                => subscription'[s].backpressure_strategy = S
          /\ subscription[s].cancelled
                => subscription'[s].backpressure_strategy
                       = subscription[s].backpressure_strategy
          /\ [subscription'[s] EXCEPT !.backpressure_strategy =
                                          subscription[s].backpressure_strategy]
                 = subscription[s]
    /\ call' = call
    /\ default_backpressure_strategy' = S

C22_Follows ==
    \A c \in DOMAIN call' :
        /\ \A k \in DOMAIN Started(c) :
              LET rec == subscription[Started(c)[k].sub] IN
                  Started(c)[k].ok = (rec.backpressure_strategy = DROP_OLDEST \/ ~Full(rec))
        /\ call'[c].pc = "put" /\ (c \notin DOMAIN call \/ call[c].idx # call'[c].idx)
              => LET rec == subscription[call'[c].list[call'[c].idx]] IN
                     rec.backpressure_strategy = BLOCK /\ Full(rec)

C22_Step ==
    /\ \A S \in BackpressureStrategy : SetGlobalBackpressureStrategy(S) => C22_Global(S)
    /\ C22_Follows

C22_GlobalStrategy == [][C22_Step]_vars

C22_Witness ==
    \E s1, s2 \in Subs :
        /\ subscription[s1].cancelled
        /\ subscription[s1].backpressure_strategy # default_backpressure_strategy
        /\ ~subscription[s2].cancelled
        /\ subscription[s2].kind = "session"
        /\ subscription[s2].backpressure_strategy = BLOCK
        /\ default_backpressure_strategy = BLOCK
        /\ subscription[s2].event_queue # <<>>
        /\ subscription[s2].processed_events > 0
\* The subscriptions the last sweep took out of the registry, and the lists
\* of the registry being in registration order.
C23_Evicted == (Subs \ Members(subscriptions)) \ clear.out

C23_Ordered(d) ==
    \A k \in 1..Len(d) : \A i, j \in 1..Len(d[k].val) :
        i < j => d[k].val[i] < d[k].val[j]

C23_Returned(stopped) ==
    /\ clear.removed = Cardinality(C23_Evicted)
    /\ \A s \in clear.was : s \notin Members(subscriptions)
    /\ \A s \in C23_Evicted :
          subscription[s].cancelled /\ subscription[s].task \in stopped
    /\ \A s \in Subs \ clear.out :
          ~subscription[s].cancelled => s \in Members(subscriptions)
    /\ C23_Ordered(subscriptions)

C23_Sweep(stopped) ==
    ((CleanupCancelledSubscriptions \/ SweepResume) /\ clear'.last = "returned")
        => /\ C23_Returned(stopped)'
           /\ clear.pc = "idle" =>
                 \A s \in Members(subscriptions') : ~subscription'[s].cancelled

\* C23 as stated: when cleanup_cancelled_subscriptions returns, the number it
\* returns is the number of subscriptions it evicted, none that was cancelled
\* when visited is still registered, the others are registered in their
\* original order, and the consumption task of every evicted subscription has
\* stopped.  A subscription cancelled before its start_processing ran has no
\* task for the sweep to stop: its task is created afterwards.
C23_AsStated == [][C23_Sweep({"none", "done"})]_vars

\* C23: when cleanup_cancelled_subscriptions returns, the number it returns is
\* the number of subscriptions it took out of the registry; no subscription
\* that was cancelled when the sweep took the lock is still registered (after
\* a sweep that never suspended, no cancelled subscription at all); every
\* subscription that is not cancelled is still registered, every list in
\* registration order; and the consumption task of an evicted subscription has
\* ended or has not run yet (it then ends at its first step): it is neither
\* waiting for an event nor running the handler.
C23_SweepEvicts == [][C23_Sweep({"none", "created", "done"})]_vars

\* a sweep that waited for the task of a cancelled subscription returned 1
\* and left the other subscription registered
C23_Witness ==
    /\ clear.pc = "idle" /\ clear.last = "returned" /\ clear.removed = 1
    /\ \E s \in C23_Evicted :
          subscription[s].task = "done" /\ subscription[s].cleanup = "pending"
    /\ \E s \in Members(subscriptions) : ~subscription[s].cancelled

\* C24: a subscription that lives in a scope (temporary_subscription or a
\* with statement) is not cancelled while the scope runs and is cancelled
\* once the scope has ended, whether it returned or raised.
C24_ScopeCancels ==
    \A s \in Subs :
        /\ subscription[s].kind = "scope" => ~subscription[s].cancelled
        /\ subscription[s].kind \in {"exited", "raised"} => subscription[s].cancelled

\* an exception left the scope of a subscription that had delivered an event
C24_Witness ==
    \E s \in Subs :
        /\ subscription[s].kind = "raised"
        /\ subscription[s].cancelled
        /\ subscription[s].delivered # <<>>

\* C25: every subscription is Created (start_processing has not run), Active
\* (started, its consumption task running) or Cancelled: no state has a
\* started subscription that is not cancelled and whose consumption task has
\* ended.  clear_all ends the task without cancelling the subscription.
C25_NoPausedState ==
    \A s \in Subs :
        (~subscription[s].starting /\ ~subscription[s].cancelled)
            => subscription[s].task \in {"created", "get", "handler"}

\* The enqueue attempts on a subscription, and a - b cut off at 0.
C26_Attempts(rec) == Len(rec.admitted) + rec.rejected

C26_Monus(a, b) == IF a > b THEN a - b ELSE 0

\* C26 as stated: in a DROP_OLDEST subscription of capacity C the queue never
\* holds more than C events and, once the number N of enqueue attempts exceeds
\* C, dropped_count is N - C, however the consumer is interleaved.  An event
\* the consumer took before the queue filled up makes room for one more.
C26_AsStated ==
    \A s \in Subs :
        LET rec == subscription[s] IN
            /\ Len(rec.event_queue) <= rec.queue_size
            /\ C26_Attempts(rec) > rec.queue_size
                  => rec.dropped_events = C26_Attempts(rec) - rec.queue_size

\* C26: in a DROP_OLDEST subscription of capacity C the queue never holds
\* more than C events, and dropped_count is the number N of enqueue attempts
\* less the events the consumer has taken and the events in the queue: at most
\* max(0, N - C), and N - C once N exceeds C if the consumer has taken none.
C26_DropOldestCount ==
    \A s \in Subs :
        LET rec == subscription[s]
            N == C26_Attempts(rec)
        IN  /\ Len(rec.event_queue) <= rec.queue_size
            /\ rec.dropped_events = N - Len(rec.delivered) - Len(rec.event_queue)
            /\ rec.dropped_events <= C26_Monus(N, rec.queue_size)
            /\ (rec.delivered = <<>> /\ N > rec.queue_size)
                  => rec.dropped_events = N - rec.queue_size

\* more attempts than the capacity, some events dropped, but fewer than N - C
C26_Witness ==
    \E s \in Subs :
        LET rec == subscription[s] IN
            /\ C26_Attempts(rec) > rec.queue_size
            /\ rec.dropped_events > 0
            /\ rec.dropped_events < C26_Attempts(rec) - rec.queue_size

\* C27 as stated: no event is admitted into the queue of a subscription that
\* is cancelled and no longer in the registry.  A put that was suspended on
\* the subscription's own full queue before the cancellation is completed
\* afterwards.
C27_Step ==
    \A s \in Subs :
        (subscription[s].cancelled /\ s \notin Members(subscriptions))
            => subscription'[s].admitted = subscription[s].admitted

C27_NoAdmissionAfterRemoval == [][C27_Step]_vars

\* C28 as stated: an emit that ended because an enqueue_event raised has
\* attempted enqueue_event on every subscription that follows the failing one
\* in the list (none of them is cancelled).  The except clause is outside the
\* loop, so the loop ends at the failing subscription.
C28_FailureIsolated ==
    \A c \in Calls :
        call[c].pc = "caught" =>
            \A j \in (call[c].idx + 1)..Len(call[c].list) :
                \/ subscription[call[c].list[j]].cancelled
                \/ \E k \in DOMAIN call[c].log : call[c].log[k].sub = call[c].list[j]

\* C29 as stated: an input that is an exit token is classified as
\* "input | exit", and once the run loop of the Application has taken it the
\* loop is over.  UserInputEvent.event_type yields "input | command" or
\* "input | text" only.
C29_ExitTokenTerminates ==
    \A c \in Calls :
        (call[c].user_input /\ call[c].data \in ExitTokens)
            => /\ call[c].event_type = "input | exit"
               /\ c \in Range(app.handled) => app.terminate_app

\* C30: the classification of a UserInputEvent is "input | command" when its
\* text begins with "/" and "input | text" otherwise, whatever the text (the
\* empty text and a text with "/" further on are "input | text").
C30_Classification ==
    \A c \in Calls :
        call[c].user_input =>
            call[c].event_type =
                IF Len(call[c].data) > 0 /\ call[c].data[1] = "/"
                THEN "input | command" ELSE "input | text"

\* the empty text, a text with "/" at its end and a text that begins with "/"
\* have been classified
C30_Witness ==
    /\ \E c \in Calls : call[c].user_input /\ call[c].data = <<>>
                          /\ call[c].event_type = "input | text"
    /\ \E c \in Calls : call[c].user_input /\ call[c].data = <<"a", "/">>
                          /\ call[c].event_type = "input | text"
    /\ \E c \in Calls : call[c].user_input /\ StartsWith(call[c].data, "/")
                          /\ call[c].event_type = "input | command"

\* C31: the classification of a StreamOutEvent is its payload's event_kind
\* joined with the kind of its nested part, delta or result (the empty kind
\* for a final result), and the one sentinel when the payload is of none of
\* the known classes; an emit calls enqueue_event at most once on a
\* subscription, only on subscriptions of the event's classification, and an
\* event is never in the queue of a subscription of another classification.
C31_Known ==
    {"PartStartEvent", "FunctionToolCallEvent", "BuiltinToolCallEvent", "PartDeltaEvent",
     "FinalResultEvent", "FunctionToolResultEvent", "BuiltinToolResultEvent"}

C31_Classification ==
    \A c \in Calls :
        LET data == call[c].data
            log == call[c].log
        IN  /\ call[c].event_type =
                  IF data.class \notin C31_Known THEN <<"Unknown">>
                  ELSE IF data.class = "FinalResultEvent" THEN <<data.event_kind, "">>
                  ELSE <<data.event_kind, data.nested_kind>>
            /\ \A i, j \in DOMAIN log : i # j => log[i].sub # log[j].sub
            /\ \A s \in Subs :
                  (\/ \E i \in DOMAIN log : log[i].sub = s
                   \/ c \in Range(subscription[s].admitted))
                      => subscription[s].event_type = call[c].event_type

\* an event of an unknown payload was delivered to a subscriber of the
\* sentinel, and a final result was classified with the empty kind
C31_Witness ==
    /\ \E c \in Calls : \E s \in Subs :
          /\ call[c].data.class = "Other"
          /\ subscription[s].event_type = <<"Unknown">>
          /\ c \in Range(subscription[s].delivered)
    /\ \E c \in Calls : call[c].event_type = <<"final_result", "">>

\* C32 as stated: the registries change only in steps of the operation that
\* holds the bus lock: while clear_all or cleanup_cancelled_subscriptions is
\* suspended with the lock held, no subscription is added to or removed from
\* a registry.  subscribe, subscribe_once and subscribe_session do not take
\* the lock.
C32_Step ==
    (clear.pc # "idle" /\ clear' = clear)
        => /\ Members(subscriptions') = Members(subscriptions)
           /\ Members(session_subscriptions') = Members(session_subscriptions)

C32_MutationsUnderLock == [][C32_Step]_vars

\* C33: in a step from a state in which a subscription has the strategy
\* BLOCK, its counters of dropped events do not change and its queue stays as
\* it is, loses its head to the consumer or gains an event at its tail while
\* it has room; an enqueue_event suspended on it stays suspended while the
\* queue is full, and when it ends the event is at the tail of the queue and
\* the call returned True.
C33_Step ==
    \A s \in Subs :
        LET rec == subscription[s]
            new == subscription'[s]
            q == rec.event_queue
        IN  rec.backpressure_strategy = BLOCK =>
                /\ new.dropped_events = rec.dropped_events
                /\ new.rejected = rec.rejected
                /\ \/ new.event_queue = q
                   \/ /\ q # <<>>
                      /\ new.event_queue = Tail(q)
                      /\ new.delivered = Append(rec.delivered, Head(q))
                   \/ /\ ~Full(rec)
                      /\ Len(new.admitted) = Len(rec.admitted) + 1
                      /\ new.event_queue = Append(q, new.admitted[Len(new.admitted)])
                /\ \A c \in Calls :
                      (call[c].pc = "put" /\ Target(c) = s) =>
                          IF Full(rec)
                          THEN call'[c] = call[c]
                          ELSE call'[c] # call[c] =>
                                  /\ new.event_queue = Append(q, c)
                                  /\ call'[c].log = Append(call[c].log, [sub |-> s, ok |-> TRUE])

C33_BlockNeverDrops == [][C33_Step]_vars

\* a BLOCK subscription admitted a later event before an earlier one: the
\* earlier enqueue_event had been suspended on the full queue
C33_Witness ==
    \E s \in Subs :
        LET a == subscription[s].admitted IN
            /\ subscription[s].backpressure_strategy = BLOCK
            /\ subscription[s].dropped_events = 0
            /\ \E i, j \in DOMAIN a : i < j /\ a[i] > a[j]

\* C34: a subscription whose start_processing has not run has no consumption
\* task and its handler has not been invoked: nothing has left its queue
\* except the events its strategy evicted.
C34_NoConsumptionBeforeStart ==
    \A s \in Subs :
        LET rec == subscription[s] IN
            rec.starting =>
                /\ rec.task = "none"
                /\ ~rec.processing_task
                /\ rec.delivered = <<>>
                /\ rec.current = 0
                /\ rec.processed_events = 0
                /\ rec.unprocessed = 0
                /\ Len(rec.admitted) = Len(rec.event_queue) + (rec.dropped_events - rec.rejected)

\* a subscription not yet started has admitted events, evicted one and
\* refused one
C34_Witness ==
    \E s \in Subs :
        /\ subscription[s].starting
        /\ Len(subscription[s].admitted) >= 2
        /\ subscription[s].dropped_events > subscription[s].rejected
        /\ subscription[s].rejected > 0

\* C35: when a stop_processing returns (the task reference of a
\* subscription that had a task is cleared), the consumption task has ended;
\* and while a started subscription has no task reference its task stays
\* ended and no handler invocation starts.
C35_Step ==
    \A s \in Subs :
        LET rec == subscription[s]
            new == subscription'[s]
        IN  /\ (rec.processing_task /\ ~new.processing_task) => new.task = "done"
            /\ (~rec.starting /\ ~rec.processing_task)
                  => /\ rec.task = "done"
                     /\ new.task = "done"
                     /\ ~new.processing_task
                     /\ new.delivered = rec.delivered
                     /\ new.current = 0

C36_Live(sid) ==
    {s \in Subs : /\ subscription[s].kind = "session"
                  /\ subscription[s].session_id = sid
                  /\ ~subscription[s].cancelled}

C36_Counts ==
    /\ \A et \in EventTypes :
          LET lst == Lookup(subscriptions, et) IN
              /\ HandlerCount(et) =
                    Cardinality({s \in Range(lst) : ~subscription[s].cancelled})
              /\ \A i, j \in DOMAIN lst : i # j => lst[i] # lst[j]
              /\ \A i \in DOMAIN lst : subscription[lst[i]].event_type = et
    /\ \A sid \in Sessions : SessionHandlerCount(sid) = Cardinality(C36_Live(sid))
    /\ ActiveSessions = {sid \in Sessions : C36_Live(sid) # {}}

\* session A has two subscriptions in its registry entry, of which one is
\* cancelled, and it is listed as active
C36_Witness ==
    /\ Len(Lookup(session_subscriptions, "A")) = 2
    /\ SessionHandlerCount("A") = 1
    /\ ActiveSessions = {"A"}
    /\ \E et \in EventTypes : HandlerCount(et) = 1 /\ Len(Lookup(subscriptions, et)) = 2

\* The sum of a counter over a set of subscriptions.
RECURSIVE C37_Sum(_, _)
C37_Sum(S, counter) ==
    IF S = {} THEN 0
    ELSE LET s == CHOOSE x \in S : TRUE
         IN  (IF counter = "processed" THEN subscription[s].processed_events
              ELSE subscription[s].dropped_events) + C37_Sum(S \ {s}, counter)

\* C37: get_backpressure_stats counts in total_subscriptions every
\* subscription in the registry, cancelled or not, and in
\* active_subscriptions those that are not cancelled; total_processed and
\* total_dropped are the sums of the counters of those that are not
\* cancelled; so active_subscriptions <= total_subscriptions.
C37_Stats ==
    LET stats == BackpressureStats
        all == Members(subscriptions)
        live == {s \in all : ~subscription[s].cancelled}
    IN  /\ stats.total_subscriptions = Cardinality(all)
        /\ stats.active_subscriptions = Cardinality(live)
        /\ stats.total_processed = C37_Sum(live, "processed")
        /\ stats.total_dropped = C37_Sum(live, "dropped")
        /\ stats.active_subscriptions <= stats.total_subscriptions

\* a cancelled subscription that processed an event is counted in the total
\* only, next to one that is not cancelled and has dropped an event
C37_Witness ==
    /\ BackpressureStats.total_subscriptions = 2
    /\ BackpressureStats.active_subscriptions = 1
    /\ BackpressureStats.total_processed = 0
    /\ BackpressureStats.total_dropped = 1
    /\ \E s \in Subs : subscription[s].cancelled /\ subscription[s].processed_events = 1

\* C38: once cancel() has returned, no new handler invocation begins for
\* the subscription, whether events were queued or a dequeue had completed
\* when cancel() was called.
C38_Step ==
    \A s \in Subs :
        subscription[s].cancelled =>
            subscription'[s].delivered = subscription[s].delivered
C38_NoHandlerAfterCancel == [][C38_Step]_vars

\* C39: a subscription has at most one live consumption task, whatever the
\* interleaving of start_processing, stop_processing and cancel: a task is
\* created only when none is live, and no two invocations of the handler
\* run at the same time.
C39_Step ==
    \A s \in Subs :
        /\ subscription'[s].task = "created" /\ subscription[s].task # "created"
              => subscription[s].task \in {"none", "done"}
        /\ Inflight(subscription'[s]) + subscription'[s].threads <= 1
C39_OneConsumer == [][C39_Step]_vars

\* C40: a subscribe or an emit that runs while clear_all or the sweep is
\* suspended never makes the operation fail, and never leaves a
\* subscription that is not cancelled and whose task is running outside
\* the registry.
C40_SafeInterleaving ==
    /\ clear.last # "raised"
    /\ \A s \in Subs :
          ~subscription[s].cancelled /\ subscription[s].task \in {"get", "handler"}
              => s \in Members(subscriptions)

====
